---- MODULE Spec2Model ----
(***************************************************************************)
(* Model of src/PuppeteerStream.ts: the session allocator getStream, the   *)
(* readiness gate assertExtensionLoaded and the TCP-to-Readable bridge     *)
(* PuppeteerReadableStream.                                                *)
(*                                                                         *)
(* A getStream call is an async function: it runs synchronously from one   *)
(* await to the next, so every action below is one such run-to-completion  *)
(* segment (or one event-loop callback).  The stream created by call c is  *)
(* identified by c.                                                        *)
(***************************************************************************)
EXTENDS Integers, Sequences, FiniteSets, TLC

\* ---------------------------------------------------------------- bounds
NumCalls   == 2      \* getStream invocations in one process
MaxSockets == 2      \* inbound connections per bridge
MaxChunks  == 3      \* chunks the producer writes to one bridge
MaxDestroy == 2      \* destroy() invocations on a bridge without data
BridgeDestroys == 1  \* destroy() invocations on a bridge carrying data
SessionDestroys == 1 \* destroy() invocations per concurrent session
MaxTimes   == 3      \* largest retry.times explored for the gate alone
SessionTimes == 1    \* retry.times of the concurrent sessions

\* ------------------------------------------------------ program constants
DefaultBasePort == 55200
DefaultEach     == 20
DefaultTimes    == 3
DefaultHighWaterMarkMB == 8

Calls     == 1..NumCalls
SocketIds == 1..MaxSockets
DestroyIds == 1..(IF MaxDestroy > SessionDestroys THEN MaxDestroy ELSE SessionDestroys)
NoIndex   == -1
NoPort    == 0

VARIABLES
    currentIndex,   \* module-level counter (line 16)
    pc,             \* position of each getStream call
    opts,           \* the options each call was invoked with
    index,          \* const index of each call (line 165)
    currentTick,    \* loop variable of assertExtensionLoaded
    probes,         \* probe evaluations issued by each call's gate
    waits,          \* durations handed to wait() by each call's gate, in order
    started,        \* index arguments of the START_RECORDING calls of each call
    probeTrue,      \* the control channel answered true to a probe of the call
    err,            \* error a call rejected with
    listener,       \* tcpServer of each stream
    port,           \* opts.port of each stream
    tcpSockets,     \* this.tcpSockets of each stream
    ended,          \* sockets on which end() was called
    flowing,        \* Readable flowing state (TRUE after resume())
    consumer,       \* a 'data' listener is attached
    buffer,         \* Readable internal buffer
    delivered,      \* chunks handed to the consumer
    dropped,        \* chunks emitted while nobody listened
    ignored,        \* chunks push() refused because the stream was destroyed
    received,       \* every chunk of a 'data' event, in the order of the events
    eof,            \* Readable ended flag (set by push(null))
    destroyed,      \* Readable destroyed flag (super.destroy())
    dpc,            \* position of each destroy() invocation
    stops,          \* index arguments of the STOP_RECORDING calls of each stream
    teardowns,      \* number of times lines 228-231 ran
    wire,           \* bytes written by the producer, not yet received
    sent,           \* chunks written by the producer on each connection
    peerEnded,      \* sockets whose peer closed the connection ('end' event)
    crashed         \* an 'error' event without listener ended the process

callVars   == <<currentIndex, pc, opts, index, currentTick, probes, waits, started, probeTrue, err>>
readVars   == <<flowing, consumer, buffer, delivered, dropped, ignored, received, eof>>
serverVars == <<listener, port, tcpSockets, ended, destroyed>>
destroyVars == <<dpc, stops, teardowns>>
netVars    == <<wire, sent, peerEnded>>
vars == <<callVars, readVars, serverVars, destroyVars, netVars, crashed>>

\* ------------------------------------------------------------- helpers
\* Math.pow on non-negative integers (Math.pow(0, 0) = 1)
RECURSIVE Pow(_, _)
Pow(b, e) == IF e = 0 THEN 1 ELSE b * Pow(b, e - 1)

\* opts.transmission?.basePort || 55200 : 0 stands for an absent or falsy value
BasePortOf(o) == IF o.basePort = 0 THEN DefaultBasePort ELSE o.basePort

\* opts.streamConfig?.highWaterMarkMB || 8 (line 162), in bytes (line 204)
HighWaterMark(o) ==
    1024 * 1024 * (IF o.highWaterMarkMB = 0 THEN DefaultHighWaterMarkMB ELSE o.highWaterMarkMB)

\* size of the chunk of one 'data' event, taken large enough for MaxChunks
\* chunks to pass the default mark
ChunkBytes == 5 * 1024 * 1024

ConfigRejected_Never(o) == FALSE

\* line 151: the condition under which getStream throws at once
ConfigRejected(o) == ~o.audio /\ ~o.video

NoOpts == [audio |-> FALSE, video |-> FALSE, basePort |-> 0,
           immediateResume |-> TRUE, highWaterMarkMB |-> 0,
           each |-> DefaultEach, times |-> DefaultTimes]

\* the options explored for concurrent sessions: streamConfig absent,
\* retry = {times: SessionTimes}
SessionOpts ==
    [audio : {FALSE}, video : BOOLEAN, basePort : {0, DefaultBasePort + 1},
     immediateResume : {TRUE}, highWaterMarkMB : {0},
     each : {DefaultEach}, times : {SessionTimes}]

\* ------------------------------------------------------------- initial state
Init ==
    /\ currentIndex = 0
    /\ pc = [c \in Calls |-> "idle"]
    /\ opts = [c \in Calls |-> NoOpts]
    /\ index = [c \in Calls |-> NoIndex]
    /\ currentTick = [c \in Calls |-> 0]
    /\ probes = [c \in Calls |-> 0]
    /\ waits = [c \in Calls |-> <<>>]
    /\ started = [c \in Calls |-> <<>>]
    /\ probeTrue = [c \in Calls |-> FALSE]
    /\ err = [c \in Calls |-> "none"]
    /\ listener = [c \in Calls |-> "none"]
    /\ port = [c \in Calls |-> NoPort]
    /\ tcpSockets = [c \in Calls |-> <<>>]
    /\ ended = [c \in Calls |-> {}]
    /\ flowing = [c \in Calls |-> FALSE]
    /\ consumer = [c \in Calls |-> FALSE]
    /\ buffer = [c \in Calls |-> <<>>]
    /\ delivered = [c \in Calls |-> <<>>]
    /\ dropped = [c \in Calls |-> <<>>]
    /\ ignored = [c \in Calls |-> <<>>]
    /\ received = [c \in Calls |-> <<>>]
    /\ eof = [c \in Calls |-> FALSE]
    /\ destroyed = [c \in Calls |-> FALSE]
    /\ dpc = [c \in Calls |-> [d \in DestroyIds |-> "idle"]]
    /\ stops = [c \in Calls |-> <<>>]
    /\ teardowns = [c \in Calls |-> 0]
    /\ wire = [c \in Calls |-> [k \in SocketIds |-> <<>>]]
    /\ sent = [c \in Calls |-> [k \in SocketIds |-> 0]]
    /\ peerEnded = [c \in Calls |-> {}]
    /\ crashed = FALSE

\* ------------------------------------------------------------- getStream
\* lines 150-159: validation, defaults, then await getExtensionPage
GetStreamCall(c, o) ==
    /\ ~crashed
    /\ pc[c] = "idle"
    /\ opts' = [opts EXCEPT ![c] = o]
    /\ IF ConfigRejected(o)
       THEN /\ pc' = [pc EXCEPT ![c] = "threw"]
            /\ err' = [err EXCEPT ![c] = "config"]
       ELSE /\ pc' = [pc EXCEPT ![c] = "awaitExtension"]
            /\ err' = err
    /\ UNCHANGED <<currentIndex, index, currentTick, probes, waits, started, probeTrue>>
    /\ UNCHANGED <<readVars, serverVars, destroyVars, netVars, crashed>>

\* lines 138-148: getExtensionPage throws, nothing was allocated yet
ExtensionPageRejected(c) ==
    /\ ~crashed
    /\ pc[c] = "awaitExtension"
    /\ pc' = [pc EXCEPT ![c] = "threw"]
    /\ err' = [err EXCEPT ![c] = "extension"]
    /\ UNCHANGED <<currentIndex, opts, index, currentTick, probes, waits, started, probeTrue>>
    /\ UNCHANGED <<readVars, serverVars, destroyVars, netVars, crashed>>

\* tcpServer.listen(port, "127.0.0.1"): the bind succeeds unless another
\* listener of this process holds the port
PortInUse(p) == \E s \in Calls : listener[s] = "listening" /\ port[s] = p

InitialFlowing_Always(o) == TRUE

\* line 219: opts.immediateResume && this.resume()
InitialFlowing(o) == o.immediateResume

AllocIndex_NoIncrement(cur) == [index |-> cur, next |-> cur]

\* line 165: const index = currentIndex++ (value of index, value of counter)
AllocIndex(cur) == [index |-> cur, next |-> cur + 1]

\* lines 161-176: allocation, constructor (lines 203-220), await bringToFront
ExtensionPageResolved(c) ==
    LET a == AllocIndex(currentIndex)
        p == BasePortOf(opts[c]) + a.index
    IN  /\ ~crashed
        /\ pc[c] = "awaitExtension"
        /\ currentIndex' = a.next
        /\ index' = [index EXCEPT ![c] = a.index]
        /\ port' = [port EXCEPT ![c] = p]
        /\ IF PortInUse(p)
           THEN /\ listener' = [listener EXCEPT ![c] = "bindError"]
                /\ crashed' = TRUE
           ELSE /\ listener' = [listener EXCEPT ![c] = "listening"]
                /\ crashed' = crashed
        /\ flowing' = [flowing EXCEPT ![c] = InitialFlowing(opts[c])]
        /\ pc' = [pc EXCEPT ![c] = "awaitFront"]
        /\ UNCHANGED <<opts, currentTick, probes, waits, started, probeTrue, err>>
        /\ UNCHANGED <<consumer, buffer, delivered, dropped, ignored, received, eof>>
        /\ UNCHANGED <<tcpSockets, ended, destroyed, destroyVars, netVars>>

\* ------------------------------------------------- assertExtensionLoaded
GateLoop_Inclusive(c, t) ==
    IF t <= opts[c].times
    THEN /\ pc' = [pc EXCEPT ![c] = "awaitProbe"]
         /\ probes' = [probes EXCEPT ![c] = @ + 1]
         /\ err' = err
    ELSE /\ pc' = [pc EXCEPT ![c] = "threw"]
         /\ probes' = probes
         /\ err' = [err EXCEPT ![c] = "readiness"]

\* line 190: the loop test, followed by the probe (line 192) or the throw (195)
GateLoop(c, t) ==
    IF t < opts[c].times
    THEN /\ pc' = [pc EXCEPT ![c] = "awaitProbe"]
         /\ probes' = [probes EXCEPT ![c] = @ + 1]
         /\ err' = err
    ELSE /\ pc' = [pc EXCEPT ![c] = "threw"]
         /\ probes' = probes
         /\ err' = [err EXCEPT ![c] = "readiness"]

\* line 176 resolved; line 177 enters the gate with currentTick = 0
BringToFrontResolved(c) ==
    /\ ~crashed
    /\ pc[c] = "awaitFront"
    /\ currentTick' = [currentTick EXCEPT ![c] = 0]
    /\ GateLoop(c, 0)
    /\ UNCHANGED <<currentIndex, opts, index, waits, started, probeTrue>>
    /\ UNCHANGED <<readVars, serverVars, destroyVars, netVars, crashed>>

WaitMs_NextTick(each, tick) == Pow(each, tick + 1)

WaitMs_Linear(each, tick) == each * tick

\* line 193: the delay of the wait that follows a failed probe
WaitMs(each, tick) == Pow(each, tick)

GateReturns_Always(r) == TRUE

\* line 192: if (await ext.evaluate(...)) return
GateReturns(r) == r

\* line 192 resolved with r: return and issue START_RECORDING (lines 179-183),
\* or wait (line 193)
ProbeResolved(c, r) ==
    /\ ~crashed
    /\ pc[c] = "awaitProbe"
    /\ probeTrue' = [probeTrue EXCEPT ![c] = r]
    /\ IF GateReturns(r)
       THEN /\ pc' = [pc EXCEPT ![c] = "awaitStart"]
            /\ started' = [started EXCEPT ![c] = Append(@, index[c])]
            /\ waits' = waits
       ELSE /\ pc' = [pc EXCEPT ![c] = "awaitWait"]
            /\ waits' = [waits EXCEPT ![c] = Append(@, WaitMs(opts[c].each, currentTick[c]))]
            /\ started' = started
    /\ UNCHANGED <<currentIndex, opts, index, currentTick, probes, err>>
    /\ UNCHANGED <<readVars, serverVars, destroyVars, netVars, crashed>>

\* the timer of line 193 fired: currentTick++ and the loop test
WaitElapsed(c) ==
    /\ ~crashed
    /\ pc[c] = "awaitWait"
    /\ currentTick' = [currentTick EXCEPT ![c] = @ + 1]
    /\ GateLoop(c, currentTick[c] + 1)
    /\ UNCHANGED <<currentIndex, opts, index, waits, started, probeTrue>>
    /\ UNCHANGED <<readVars, serverVars, destroyVars, netVars, crashed>>

\* lines 179-185: START_RECORDING resolved, the stream is returned
StartResolved(c) ==
    /\ ~crashed
    /\ pc[c] = "awaitStart"
    /\ pc' = [pc EXCEPT ![c] = "returned"]
    /\ UNCHANGED <<currentIndex, opts, index, currentTick, probes, waits, started, probeTrue, err>>
    /\ UNCHANGED <<readVars, serverVars, destroyVars, netVars, crashed>>

\* ------------------------------------------------------------- the bridge
\* lines 209-211: the connection handler registers the socket
Register(socks, k) == Append(socks, k)

\* a client connects to the listener; k is the accepted socket, sockets
\* being named in the order they are accepted
Connect(c, k) ==
    /\ ~crashed
    /\ listener[c] = "listening"
    /\ k = Len(tcpSockets[c]) + 1
    /\ tcpSockets' = [tcpSockets EXCEPT ![c] = Register(@, k)]
    /\ UNCHANGED <<callVars, readVars, listener, port, ended, destroyed>>
    /\ UNCHANGED <<destroyVars, netVars, crashed>>

Registered(c) == {tcpSockets[c][i] : i \in 1..Len(tcpSockets[c])}

\* chunks written so far on the connections 1..k of stream c
RECURSIVE SentUpTo(_, _)
SentUpTo(c, k) == IF k = 0 THEN 0 ELSE sent[c][k] + SentUpTo(c, k - 1)

\* the producer writes its next chunk on connection k; a chunk is named by
\* its connection and its position in that connection's byte stream
ProducerWrite(c, k) ==
    /\ ~crashed
    /\ k \in Registered(c)
    /\ k \notin peerEnded[c]
    /\ SentUpTo(c, MaxSockets) < MaxChunks
    /\ sent' = [sent EXCEPT ![c][k] = @ + 1]
    /\ wire' = [wire EXCEPT ![c][k] = Append(@, <<k, sent[c][k] + 1>>)]
    /\ UNCHANGED <<callVars, readVars, serverVars, destroyVars, peerEnded, crashed>>

SocketEndEffect_PushNull(e) == TRUE

\* lines 209-215: the connection handler subscribes to 'data' only, so the
\* 'end' and 'close' events of a socket leave the Readable's ended flag alone
SocketEndEffect(e) == e

\* the peer closed connection k: after its last byte was read the socket
\* emits 'end' (and 'close'); it stays in tcpSockets
PeerEnd(c, k) ==
    /\ ~crashed
    /\ k \in Registered(c)
    /\ k \notin peerEnded[c]
    /\ wire[c][k] = <<>>
    /\ peerEnded' = [peerEnded EXCEPT ![c] = @ \cup {k}]
    /\ eof' = [eof EXCEPT ![c] = SocketEndEffect(@)]
    /\ UNCHANGED <<callVars, flowing, consumer, buffer, delivered, dropped, ignored, received>>
    /\ UNCHANGED <<serverVars, destroyVars, wire, sent, crashed>>

AddChunk_Front(buf, chunk) == <<chunk>> \o buf

\* Readable.push on a live stream: the chunk joins the buffer
AddChunk(buf, chunk) == Append(buf, chunk)

\* lines 212-214: a 'data' event of socket k calls this.push(data).
\* Readable.push: refused once destroyed; emitted at once when flowing (to
\* the 'data' listeners, if any); buffered otherwise.
SocketData(c, k) ==
    LET chunk == Head(wire[c][k])
    IN  /\ ~crashed
        /\ k \in Registered(c)
        /\ wire[c][k] # <<>>
        /\ wire' = [wire EXCEPT ![c][k] = Tail(@)]
        /\ received' = [received EXCEPT ![c] = Append(@, chunk)]
        /\ IF destroyed[c]
           THEN /\ ignored' = [ignored EXCEPT ![c] = Append(@, chunk)]
                /\ UNCHANGED <<buffer, delivered, dropped>>
           ELSE IF flowing[c]
           THEN IF consumer[c]
                THEN /\ delivered' = [delivered EXCEPT ![c] = @ \o AddChunk(buffer[c], chunk)]
                     /\ UNCHANGED <<buffer, dropped, ignored>>
                ELSE /\ dropped' = [dropped EXCEPT ![c] = @ \o AddChunk(buffer[c], chunk)]
                     /\ UNCHANGED <<buffer, delivered, ignored>>
           ELSE /\ buffer' = [buffer EXCEPT ![c] = AddChunk(@, chunk)]
                /\ UNCHANGED <<delivered, dropped, ignored>>
        /\ UNCHANGED <<callVars, flowing, consumer, eof, serverVars, destroyVars, sent, peerEnded, crashed>>

\* the caller attaches a 'data' listener to the returned stream:
\* Readable.on('data') resumes a stream that was never paused and the
\* buffer is flushed to the listener
ConsumerAttach(c) ==
    /\ ~crashed
    /\ pc[c] = "returned"
    /\ ~consumer[c]
    /\ ~destroyed[c]
    /\ consumer' = [consumer EXCEPT ![c] = TRUE]
    /\ flowing' = [flowing EXCEPT ![c] = TRUE]
    /\ delivered' = [delivered EXCEPT ![c] = @ \o buffer[c]]
    /\ buffer' = [buffer EXCEPT ![c] = <<>>]
    /\ UNCHANGED <<callVars, dropped, ignored, received, eof, serverVars, destroyVars, netVars, crashed>>

\* the caller pulls with read() from a stream that is not flowing
\* (_read, line 222, does nothing: data only comes from push)
ConsumerRead(c) ==
    /\ ~crashed
    /\ pc[c] = "returned"
    /\ ~flowing[c]
    /\ ~destroyed[c]
    /\ buffer[c] # <<>>
    /\ delivered' = [delivered EXCEPT ![c] = @ \o buffer[c]]
    /\ buffer' = [buffer EXCEPT ![c] = <<>>]
    /\ UNCHANGED <<callVars, flowing, consumer, dropped, ignored, received, eof>>
    /\ UNCHANGED <<serverVars, destroyVars, netVars, crashed>>

\* ------------------------------------------------------------- destroy
OnDestroyIndex_Latest(c) == currentIndex - 1

\* line 170: the index the onDestroy closure passes to STOP_RECORDING
OnDestroyIndex(c) == index[c]

\* lines 225-226: destroy() calls onDestroy and awaits it
DestroyCall(c, d) ==
    /\ ~crashed
    /\ pc[c] = "returned"
    /\ dpc[c][d] = "idle"
    /\ \A e \in DestroyIds : e < d => dpc[c][e] # "idle"
    /\ dpc' = [dpc EXCEPT ![c][d] = "awaitStop"]
    /\ stops' = [stops EXCEPT ![c] = Append(@, OnDestroyIndex(c))]
    /\ UNCHANGED <<callVars, readVars, serverVars, teardowns, netVars, crashed>>

EndSockets_First(e, socks) == e \cup (IF socks = <<>> THEN {} ELSE {socks[1]})

\* line 228: this.tcpSockets.forEach((socket) => socket.end())
EndSockets(e, socks) == e \cup {socks[i] : i \in 1..Len(socks)}

CloseServer_Keep(l) == l

\* line 229: tcpServer.close()
CloseServer(l) == "closed"

\* lines 228-232: onDestroy resolved; sockets ended, listener closed,
\* Readable destroyed
StopResolved(c, d) ==
    /\ ~crashed
    /\ dpc[c][d] = "awaitStop"
    /\ dpc' = [dpc EXCEPT ![c][d] = "done"]
    /\ ended' = [ended EXCEPT ![c] = EndSockets(@, tcpSockets[c])]
    /\ listener' = [listener EXCEPT ![c] = CloseServer(@)]
    /\ destroyed' = [destroyed EXCEPT ![c] = TRUE]
    /\ teardowns' = [teardowns EXCEPT ![c] = @ + 1]
    /\ UNCHANGED <<callVars, readVars, port, tcpSockets, stops, netVars, crashed>>

\* line 226: onDestroy rejected; the await throws and destroy() rejects
StopRejected(c, d) ==
    /\ ~crashed
    /\ dpc[c][d] = "awaitStop"
    /\ dpc' = [dpc EXCEPT ![c][d] = "rejected"]
    /\ UNCHANGED <<callVars, readVars, serverVars, stops, teardowns, netVars, crashed>>

\* ------------------------------------------------------ specifications
\* concurrent sessions: creation and destruction
Next ==
    \/ \E c \in Calls, o \in SessionOpts : GetStreamCall(c, o)
    \/ \E c \in Calls : ExtensionPageRejected(c)
    \/ \E c \in Calls : ExtensionPageResolved(c)
    \/ \E c \in Calls : BringToFrontResolved(c)
    \/ \E c \in Calls, r \in BOOLEAN : ProbeResolved(c, r)
    \/ \E c \in Calls : WaitElapsed(c)
    \/ \E c \in Calls : StartResolved(c)
    \/ \E c \in Calls, d \in 1..SessionDestroys : DestroyCall(c, d)
    \/ \E c \in Calls, d \in 1..SessionDestroys : StopResolved(c, d)
    \/ \E c \in Calls, d \in 1..SessionDestroys : StopRejected(c, d)

Spec == Init /\ [][Next]_vars

\* one bridge carrying data: the first getStream call has just returned
\* (first probe true), with either setting of streamConfig.immediateResume
BridgeOpts ==
    [audio : {FALSE}, video : {TRUE}, basePort : {0},
     immediateResume : BOOLEAN, highWaterMarkMB : {0},
     each : {DefaultEach}, times : {DefaultTimes}]

InitBridge ==
    /\ currentIndex = 1
    /\ pc = [c \in Calls |-> IF c = 1 THEN "returned" ELSE "idle"]
    /\ \E o \in BridgeOpts :
          /\ opts = [c \in Calls |-> IF c = 1 THEN o ELSE NoOpts]
          /\ flowing = [c \in Calls |-> IF c = 1 THEN InitialFlowing(o) ELSE FALSE]
    /\ index = [c \in Calls |-> IF c = 1 THEN 0 ELSE NoIndex]
    /\ currentTick = [c \in Calls |-> 0]
    /\ probes = [c \in Calls |-> IF c = 1 THEN 1 ELSE 0]
    /\ waits = [c \in Calls |-> <<>>]
    /\ started = [c \in Calls |-> IF c = 1 THEN <<0>> ELSE <<>>]
    /\ probeTrue = [c \in Calls |-> c = 1]
    /\ err = [c \in Calls |-> "none"]
    /\ listener = [c \in Calls |-> IF c = 1 THEN "listening" ELSE "none"]
    /\ port = [c \in Calls |-> IF c = 1 THEN DefaultBasePort ELSE NoPort]
    /\ tcpSockets = [c \in Calls |-> <<>>]
    /\ ended = [c \in Calls |-> {}]
    /\ consumer = [c \in Calls |-> FALSE]
    /\ buffer = [c \in Calls |-> <<>>]
    /\ delivered = [c \in Calls |-> <<>>]
    /\ dropped = [c \in Calls |-> <<>>]
    /\ ignored = [c \in Calls |-> <<>>]
    /\ received = [c \in Calls |-> <<>>]
    /\ eof = [c \in Calls |-> FALSE]
    /\ destroyed = [c \in Calls |-> FALSE]
    /\ dpc = [c \in Calls |-> [d \in DestroyIds |-> "idle"]]
    /\ stops = [c \in Calls |-> <<>>]
    /\ teardowns = [c \in Calls |-> 0]
    /\ wire = [c \in Calls |-> [k \in SocketIds |-> <<>>]]
    /\ sent = [c \in Calls |-> [k \in SocketIds |-> 0]]
    /\ peerEnded = [c \in Calls |-> {}]
    /\ crashed = FALSE

NextBridge ==
    \/ \E k \in SocketIds : Connect(1, k)
    \/ \E k \in SocketIds : ProducerWrite(1, k)
    \/ \E k \in SocketIds : SocketData(1, k)
    \/ \E k \in SocketIds : PeerEnd(1, k)
    \/ ConsumerAttach(1)
    \/ ConsumerRead(1)
    \/ \E d \in 1..BridgeDestroys : DestroyCall(1, d)
    \/ \E d \in 1..BridgeDestroys : StopResolved(1, d)
    \/ \E d \in 1..BridgeDestroys : StopRejected(1, d)

SpecBridge == InitBridge /\ [][NextBridge]_vars

\* the same bridge, its connections and repeated, overlapping destroy()
\* calls, without data
NextDestroy ==
    \/ \E k \in SocketIds : Connect(1, k)
    \/ \E k \in SocketIds : PeerEnd(1, k)
    \/ \E d \in DestroyIds : DestroyCall(1, d)
    \/ \E d \in DestroyIds : StopResolved(1, d)
    \/ \E d \in DestroyIds : StopRejected(1, d)

SpecDestroy == InitBridge /\ [][NextDestroy]_vars

\* the same bridge with the event loop's guarantee that a pending socket
\* event is dispatched; the control channel (the settling of the stop call)
\* and the peers are under no obligation
SpecBridgeFair ==
    /\ SpecBridge
    /\ WF_vars(\E k \in SocketIds : SocketData(1, k))

\* the gate alone: the first getStream call is about to enter
\* assertExtensionLoaded (line 177) with a retry policy from GateOpts
GateEach == {0, 1, 2, 3, DefaultEach}
GateOpts ==
    [audio : {FALSE}, video : {TRUE}, basePort : {0},
     immediateResume : {TRUE}, highWaterMarkMB : {0},
     each : GateEach, times : 0..MaxTimes]

InitGate ==
    /\ currentIndex = 1
    /\ pc = [c \in Calls |-> IF c = 1 THEN "awaitFront" ELSE "idle"]
    /\ \E o \in GateOpts : opts = [c \in Calls |-> IF c = 1 THEN o ELSE NoOpts]
    /\ flowing = [c \in Calls |-> c = 1]
    /\ index = [c \in Calls |-> IF c = 1 THEN 0 ELSE NoIndex]
    /\ currentTick = [c \in Calls |-> 0]
    /\ probes = [c \in Calls |-> 0]
    /\ waits = [c \in Calls |-> <<>>]
    /\ started = [c \in Calls |-> <<>>]
    /\ probeTrue = [c \in Calls |-> FALSE]
    /\ err = [c \in Calls |-> "none"]
    /\ listener = [c \in Calls |-> IF c = 1 THEN "listening" ELSE "none"]
    /\ port = [c \in Calls |-> IF c = 1 THEN DefaultBasePort ELSE NoPort]
    /\ tcpSockets = [c \in Calls |-> <<>>]
    /\ ended = [c \in Calls |-> {}]
    /\ consumer = [c \in Calls |-> FALSE]
    /\ buffer = [c \in Calls |-> <<>>]
    /\ delivered = [c \in Calls |-> <<>>]
    /\ dropped = [c \in Calls |-> <<>>]
    /\ ignored = [c \in Calls |-> <<>>]
    /\ received = [c \in Calls |-> <<>>]
    /\ eof = [c \in Calls |-> FALSE]
    /\ destroyed = [c \in Calls |-> FALSE]
    /\ dpc = [c \in Calls |-> [d \in DestroyIds |-> "idle"]]
    /\ stops = [c \in Calls |-> <<>>]
    /\ teardowns = [c \in Calls |-> 0]
    /\ wire = [c \in Calls |-> [k \in SocketIds |-> <<>>]]
    /\ sent = [c \in Calls |-> [k \in SocketIds |-> 0]]
    /\ peerEnded = [c \in Calls |-> {}]
    /\ crashed = FALSE

NextGate ==
    \/ BringToFrontResolved(1)
    \/ \E r \in BOOLEAN : ProbeResolved(1, r)
    \/ WaitElapsed(1)
    \/ StartResolved(1)

SpecGate == InitGate /\ [][NextGate]_vars

\* ------------------------------------------------------------ properties
\* chunks push() accepted on stream c, in the order they were pushed
PushedSeq(c) == dropped[c] \o delivered[c] \o buffer[c]

\* the chunks of sequence s that came from connection k
FromSocket(s, k) == SelectSeq(s, LAMBDA x : x[1] = k)

\* the session of call c exists and its stream was not destroyed
SessionActive(c) == index[c] # NoIndex /\ ~destroyed[c]

\* C1 (as claimed): a destroy() whose producer-stop call rejected has still
\* ended every registered socket, closed the listener and destroyed the stream.
C1_DestroyReleasesOnStopFailure ==
    \A c \in Calls, d \in DestroyIds :
        dpc[c][d] = "rejected" =>
            /\ Registered(c) \subseteq ended[c]
            /\ listener[c] = "closed"
            /\ destroyed[c]

\* C2 (as claimed): whatever the number of destroy() calls, the producer-stop
\* callback is invoked at most once and the teardown runs at most once.
C2_DestroyIdempotent ==
    \A c \in Calls : Len(stops[c]) <= 1 /\ teardowns[c] <= 1

\* C3 (as claimed): from the moment destroy() is invoked, no step appends a
\* chunk to the output or registers a connection.
C3_NothingForwardedOnceDestroyInvoked ==
    [][\A c \in Calls :
          dpc[c][1] # "idle" =>
              /\ PushedSeq(c)' = PushedSeq(c)
              /\ tcpSockets'[c] = tcpSockets[c]]_vars

\* C3 (amended): once a destroy() has run its teardown (stop call resolved,
\* lines 228-231 executed), no step appends a chunk to the output or
\* registers a connection.
C3_NothingForwardedOnceDestroyed ==
    [][\A c \in Calls :
          destroyed[c] =>
              /\ PushedSeq(c)' = PushedSeq(c)
              /\ tcpSockets'[c] = tcpSockets[c]]_vars

\* a chunk arrived on a socket of a destroyed stream
C3_Witness == \E c \in Calls : destroyed[c] /\ ignored[c] # <<>>

\* C4 (as claimed): the ports basePort + index of two sessions active at the
\* same time differ.
C4_ActivePortsDistinct ==
    \A c1, c2 \in Calls :
        c1 # c2 /\ SessionActive(c1) /\ SessionActive(c2) => port[c1] # port[c2]

\* C5: a call that allocates its index gets one strictly greater than every
\* index allocated before, and an allocated index never changes.
C5_IndexMonotonic ==
    [][\A c \in Calls :
          /\ index[c] # NoIndex => index'[c] = index[c]
          /\ index[c] = NoIndex /\ index'[c] # NoIndex =>
                \A c2 \in Calls : index'[c] > index[c2]]_vars

\* two calls hold an index
C5_Witness ==
    \E c1, c2 \in Calls : c1 # c2 /\ index[c1] # NoIndex /\ index[c2] # NoIndex

\* C6 (as claimed): a getStream call that failed with the readiness error
\* has no listener left open.
C6_NoListenerAfterReadinessFailure ==
    \A c \in Calls :
        pc[c] = "threw" /\ err[c] = "readiness" => listener[c] # "listening"

\* C7: a call with audio = false and video = false has thrown the
\* configuration error, holds no index, opened no listener and made no
\* control-channel call; the counter counts only the calls that hold an index.
C7_ConfigRejectedBeforeAllocation ==
    /\ \A c \in Calls :
          pc[c] # "idle" /\ ~opts[c].audio /\ ~opts[c].video =>
              /\ pc[c] = "threw" /\ err[c] = "config"
              /\ index[c] = NoIndex
              /\ listener[c] = "none" /\ port[c] = NoPort
              /\ probes[c] = 0 /\ started[c] = <<>> /\ stops[c] = <<>>
    /\ currentIndex = Cardinality({c \in Calls : index[c] # NoIndex})

\* a call was rejected for its configuration while another session exists
C7_Witness ==
    \E c1, c2 \in Calls :
        /\ pc[c1] = "threw" /\ err[c1] = "config"
        /\ index[c2] # NoIndex

\* C8 (as claimed): on a stream that was not destroyed every received chunk
\* is observable, delivered to the consumer or waiting in the buffer.
C8_NoChunkDropped ==
    \A c \in Calls : ~destroyed[c] => delivered[c] \o buffer[c] = received[c]

\* C8 (amended): on a stream that was not destroyed the received chunks are
\* those discarded while the stream flowed without listener, then those
\* delivered, then those buffered; with immediateResume = false none is
\* discarded.
C8_NoChunkDroppedUnlessResumed ==
    \A c \in Calls :
        ~destroyed[c] =>
            /\ PushedSeq(c) = received[c]
            /\ ~opts[c].immediateResume => dropped[c] = <<>>

\* three chunks arrived before any consumer attached and are all buffered
C8_Witness ==
    \E c \in Calls :
        /\ ~opts[c].immediateResume /\ ~consumer[c] /\ ~destroyed[c]
        /\ Len(buffer[c]) >= 3

\* C9: the chunks pushed to the output are the chunks of the data events in
\* the order of the events, so the chunks of one connection appear in the
\* order they were sent on it.
C9_ReceiptOrder ==
    \A c \in Calls :
        /\ PushedSeq(c) \o ignored[c] = received[c]
        /\ \A k \in SocketIds :
              LET own == FromSocket(PushedSeq(c), k)
              IN  own = [i \in 1..Len(own) |-> <<k, i>>]

\* chunks of two connections are interleaved in the buffer
C9_Witness ==
    \E c \in Calls :
        /\ Len(buffer[c]) >= 3
        /\ buffer[c][1][1] # buffer[c][2][1]
        /\ buffer[c][3][1] = buffer[c][1][1]

\* C10: when the gate succeeds on its n-th probe it made n <= times probes
\* and n - 1 waits of each^0, ..., each^(n-2); every probe is preceded by as
\* many waits as there were probes before it (none before the first).
C10_GateSuccess ==
    \A c \in Calls :
        /\ pc[c] = "awaitProbe" => Len(waits[c]) = probes[c] - 1
        /\ pc[c] \in {"awaitStart", "returned"} =>
              /\ probes[c] >= 1 /\ probes[c] <= opts[c].times
              /\ Len(waits[c]) = probes[c] - 1
              /\ \A i \in 1..Len(waits[c]) : waits[c][i] = Pow(opts[c].each, i - 1)
              /\ opts[c].each = 20 /\ probes[c] = 3 => waits[c] = <<1, 20>>

\* each = 20, times = 3 and the third probe succeeded
C10_Witness ==
    \E c \in Calls :
        /\ pc[c] = "awaitStart"
        /\ opts[c].each = 20 /\ opts[c].times = 3 /\ probes[c] = 3

\* C11: a gate whose probes all returned false has thrown the readiness
\* error after exactly times probes; no gate ever makes more than times.
C11_GateFailureProbes ==
    \A c \in Calls :
        /\ probes[c] <= opts[c].times
        /\ pc[c] = "threw" /\ err[c] = "readiness" => probes[c] = opts[c].times

\* a gate with times = 3 failed
C11_Witness ==
    \E c \in Calls :
        /\ pc[c] = "threw" /\ err[c] = "readiness"
        /\ opts[c].times = 3 /\ probes[c] = 3

\* C20: the gate waits after every failed probe, the last one included: a
\* failed gate made times waits of each^0, ..., each^(times-1) and throws in
\* the step in which its last wait elapses; a gate that succeeded on its
\* n-th probe made n - 1 waits.
C20_GateWaitsAfterEveryFailure ==
    /\ [](\A c \in Calls :
            /\ pc[c] = "awaitWait" => Len(waits[c]) = probes[c]
            /\ pc[c] = "awaitStart" => Len(waits[c]) = probes[c] - 1
            /\ pc[c] = "threw" /\ err[c] = "readiness" =>
                  /\ Len(waits[c]) = opts[c].times
                  /\ \A i \in 1..Len(waits[c]) : waits[c][i] = Pow(opts[c].each, i - 1)
                  /\ opts[c].each = 20 /\ opts[c].times = 3 => waits[c] = <<1, 20, 400>>)
    /\ [][\A c \in Calls :
            pc[c] # "threw" /\ pc'[c] = "threw" /\ err'[c] = "readiness"
                /\ opts[c].times > 0 =>
                    pc[c] = "awaitWait" /\ Len(waits[c]) = opts[c].times]_vars

\* each = 20, times = 3 and all three probes failed
C20_Witness ==
    \E c \in Calls :
        /\ pc[c] = "threw" /\ err[c] = "readiness"
        /\ opts[c].each = 20 /\ opts[c].times = 3 /\ Len(waits[c]) = 3

\* C13 (as claimed): a call whose listener could not bind its port has
\* rejected with the bind error and has not invoked START_RECORDING.
C13_BindFailureRejectsGetStream ==
    \A c \in Calls :
        listener[c] = "bindError" =>
            /\ pc[c] = "threw" /\ err[c] = "bind"
            /\ started[c] = <<>>

\* C16: START_RECORDING is invoked at most once per call, with the listener
\* of the call open on its port and after the control channel answered true
\* to a probe; a call inside the gate or failed by it has not invoked it.
C16_StartAfterGateAndListen ==
    \A c \in Calls :
        /\ Len(started[c]) <= 1
        /\ started[c] # <<>> =>
              /\ probeTrue[c]
              /\ pc[c] \in {"awaitStart", "returned"}
              /\ listener[c] # "none" /\ port[c] # NoPort
        /\ pc[c] \in {"awaitProbe", "awaitWait", "threw"} => started[c] = <<>>

\* one call started its producer and another was failed by the gate
C16_Witness ==
    \E c1, c2 \in Calls :
        /\ started[c1] # <<>> /\ pc[c1] = "returned"
        /\ pc[c2] = "threw" /\ err[c2] = "readiness" /\ probes[c2] >= 1

\* C19: every start and stop call of a session carries the index of that
\* session, so no stop call carries the index of another session.
C19_ControlCallsOwnIndex ==
    \A c \in Calls :
        /\ \A i \in 1..Len(started[c]) : started[c][i] = index[c]
        /\ \A i \in 1..Len(stops[c]) :
              /\ stops[c][i] = index[c]
              /\ \A c2 \in Calls : c2 # c => stops[c][i] # index[c2]

\* two sessions are returned and the one created first was destroyed
C19_Witness ==
    \E c1, c2 \in Calls :
        /\ pc[c1] = "returned" /\ pc[c2] = "returned"
        /\ index[c1] < index[c2]
        /\ stops[c1] # <<>> /\ stops[c2] = <<>>

\* the output of stream c is open: neither ended nor destroyed
OutputOpen(c) == ~eof[c] /\ ~destroyed[c]

\* bytes held in the Readable buffer of stream c
BufferBytes(c) == Len(buffer[c]) * ChunkBytes

\* C12: the output leaves the open state only in the step in which a
\* destroy() passes its stop call and runs super.destroy(); no socket event
\* closes it.
C12_EndOnlyByDestroy ==
    [][\A c \in Calls :
          OutputOpen(c) /\ ~OutputOpen(c)' =>
              \E d \in DestroyIds : dpc[c][d] = "awaitStop" /\ dpc'[c][d] = "done"]_vars

\* every connection of the bridge was closed by its peer, the output is open
C12_Witness ==
    \E c \in Calls :
        /\ Len(tcpSockets[c]) = 2 /\ peerEnded[c] = Registered(c)
        /\ received[c] # <<>>
        /\ OutputOpen(c)

\* C14 (as claimed), for the stop call that never completes: a destroy()
\* waiting for its stop call eventually has the registered sockets ended and
\* the listener closed, unless the stop call settles after all.
C14_DestroyEventuallyReleases ==
    \A c \in Calls, d \in DestroyIds :
        (dpc[c][d] = "awaitStop") ~>
            \/ listener[c] = "closed" /\ Registered(c) \subseteq ended[c]
            \/ dpc[c][d] # "awaitStop"

\* C15 (as claimed): once the buffered bytes exceed the high-water mark, no
\* step adds to the buffer.
C15_BufferStopsAtHighWaterMark ==
    [][\A c \in Calls :
          BufferBytes(c) > HighWaterMark(opts[c]) =>
              BufferBytes(c)' <= BufferBytes(c)]_vars

\* C17: a stream is destroyed only with its sockets ended and its listener
\* closed, and every step that ends a socket, closes the listener or
\* destroys the stream is the continuation of a destroy() whose stop call
\* had been invoked and completes in that step.
C17_DestroyTwoPhase ==
    /\ [](\A c \in Calls :
            destroyed[c] => listener[c] = "closed" /\ Registered(c) \subseteq ended[c])
    /\ [][\A c \in Calls :
            (ended'[c] # ended[c] \/ destroyed'[c] # destroyed[c]
                \/ (listener'[c] = "closed" /\ listener[c] # "closed")) =>
                /\ stops[c] # <<>>
                /\ \E d \in DestroyIds : dpc[c][d] = "awaitStop" /\ dpc'[c][d] = "done"]_vars

\* a destroy() was invoked on a bridge with a socket and is waiting for its
\* stop call: nothing was released yet
C17_Witness ==
    \E c \in Calls :
        /\ dpc[c][1] = "awaitStop" /\ tcpSockets[c] # <<>>
        /\ ended[c] = {} /\ listener[c] = "listening" /\ ~destroyed[c]

\* C18: once a destroy() whose stop call succeeded has completed, every
\* registered socket is ended, the listener is closed and the stream is
\* destroyed, and this stays so: no socket is registered afterwards.
C18_ClosedAfterDestroy ==
    /\ [](\A c \in Calls :
            (\E d \in DestroyIds : dpc[c][d] = "done") =>
                /\ Registered(c) \subseteq ended[c]
                /\ listener[c] = "closed"
                /\ destroyed[c])
    /\ [][\A c \in Calls :
            destroyed[c] =>
                /\ destroyed'[c] /\ listener'[c] = "closed"
                /\ tcpSockets'[c] = tcpSockets[c]
                /\ Registered(c) \subseteq ended'[c]]_vars

\* a destroy() completed on a bridge with two sockets, both ended
C18_Witness ==
    \E c \in Calls :
        /\ \E d \in DestroyIds : dpc[c][d] = "done"
        /\ Len(tcpSockets[c]) = 2 /\ ended[c] = {1, 2}
====
